---- MODULE Spec2Model ----
(***************************************************************************)
(* Paginated kline fetch of the bybit binary (src/bybit/src/main.rs):      *)
(* main's window validation, BybitClient::get_kline (the pagination loop), *)
(* BybitClient::get_kline_single (envelope checks and row normalisation),  *)
(* Kline::from_vec, BybitClient::parse_interval_to_ms and the "barter"     *)
(* output of main through Kline::to_barter_event.                          *)
(*                                                                         *)
(* Strings that the code parses (the fields of a raw row) are sequences of *)
(* one-character strings; strings that the code only compares as a whole   *)
(* (the interval code, messages) are TLA+ strings.  Timestamps are         *)
(* milliseconds, as in the source.                                         *)
(***************************************************************************)
EXTENDS Integers, Sequences, FiniteSets, TLC

\* ------------------------------------------------------------------ bounds
\* Timestamps the provider and the caller use: 0 .. MaxTick one-minute bars.
MaxTick == 4
\* Longest page (number of rows) an unconstrained provider sends.
MaxRows == 2
\* Largest max_records a caller asks for.
MaxRecords == 3
\* Page-size cap of the provider: 1000 in the source, scaled down so that
\* a run needs more than one page.
MaxPage == 2
\* Longest request log kept per run when the provider is a fixed function.
MaxRequests == 2
\* Timestamps a provider that is a fixed function uses: 0 .. MaxFnTick bars.
MaxFnTick == 1
\* Longest interval code given to a function applied on its own.
MaxCodeLen == 3
\* Longest raw row (number of fields) given to Kline::from_vec on its own.
MaxFields == 8

None == [none |-> TRUE]

Ok(v) == [ok |-> TRUE, val |-> v, err |-> ""]
Err(m) == [ok |-> FALSE, val |-> <<>>, err |-> m]

Min(a, b) == IF a < b THEN a ELSE b

\* ------------------------------------------------------------ str::parse
Digits == <<"0", "1", "2", "3", "4", "5", "6", "7", "8", "9">>

IsDigit(c) == \E d \in 1..10 : Digits[d] = c

DigitVal(c) == (CHOOSE d \in 1..10 : Digits[d] = c) - 1

RECURSIVE DecimalValue(_)
DecimalValue(s) ==
    IF s = <<>> THEN 0
    ELSE 10 * DecimalValue(SubSeq(s, 1, Len(s) - 1)) + DigitVal(s[Len(s)])

AllDigits(s) == \A i \in 1..Len(s) : IsDigit(s[i])

\* u64::from_str: an optional "+", then one or more decimal digits.
\* (Values stay far below 2^64 within the bounds, so the overflow error of
\* the parser is not reachable here.)
ParseU64(s) ==
    LET body == IF s # <<>> /\ s[1] = "+" THEN Tail(s) ELSE s
    IN  IF body # <<>> /\ AllDigits(body)
        THEN Ok(DecimalValue(body))
        ELSE Err("ParseIntError")

\* Position of the first "." in s, or 0.
DotPos(s) ==
    IF \E i \in 1..Len(s) : s[i] = "."
    THEN CHOOSE i \in 1..Len(s) : s[i] = "." /\ \A j \in 1..(i - 1) : s[j] # "."
    ELSE 0

RECURSIVE StripZeros(_)
StripZeros(s) ==
    IF s # <<>> /\ s[Len(s)] = "0" THEN StripZeros(SubSeq(s, 1, Len(s) - 1)) ELSE s

\* f64::from_str restricted to plain decimals: an optional sign, digits with
\* an optional "." (at least one digit on one side of it).  The value is kept
\* exactly, as sign, integer part and fraction digits without trailing zeros.
\* Exponents, "inf" and "nan" are not among the strings the model's provider
\* sends.
ParseF64(s) ==
    LET signed == s # <<>> /\ s[1] \in {"+", "-"}
        body == IF signed THEN Tail(s) ELSE s
        dot == DotPos(body)
        ip == IF dot = 0 THEN body ELSE SubSeq(body, 1, dot - 1)
        fp == IF dot = 0 THEN <<>> ELSE SubSeq(body, dot + 1, Len(body))
    IN  IF AllDigits(ip) /\ AllDigits(fp) /\ Len(ip) + Len(fp) > 0
        THEN Ok([neg |-> signed /\ s[1] = "-" /\ (DecimalValue(ip) # 0 \/ StripZeros(fp) # <<>>),
                 int |-> DecimalValue(ip),
                 frac |-> StripZeros(fp)])
        ELSE Err("ParseFloatError")

\* u64::to_string, used by the provider to write a timestamp into a row.
RECURSIVE to_string(_)
to_string(n) ==
    IF n < 10 THEN <<Digits[n + 1]>>
    ELSE to_string(n \div 10) \o <<Digits[(n % 10) + 1]>>

\* -------------------------------------------------------- Kline::from_vec
\* Mutant: the open price is parsed before the start time.
from_vec_reordered(data) ==
    IF Len(data) < 7 THEN Err("Invalid kline data format")
    ELSE LET t == ParseU64(data[1])
             o == ParseF64(data[2])
             h == ParseF64(data[3])
             l == ParseF64(data[4])
             c == ParseF64(data[5])
             v == ParseF64(data[6])
             u == ParseF64(data[7])
         IN  IF ~o.ok THEN Err("Invalid open price")
             ELSE IF ~t.ok THEN Err("Invalid start time")
             ELSE IF ~h.ok THEN Err("Invalid high price")
             ELSE IF ~l.ok THEN Err("Invalid low price")
             ELSE IF ~c.ok THEN Err("Invalid close price")
             ELSE IF ~v.ok THEN Err("Invalid volume")
             ELSE IF ~u.ok THEN Err("Invalid turnover")
             ELSE Ok([start_time |-> t.val, open_price |-> o.val,
                      high_price |-> h.val, low_price |-> l.val,
                      close_price |-> c.val, volume |-> v.val,
                      turnover |-> u.val])

from_vec(data) ==
    IF Len(data) < 7 THEN Err("Invalid kline data format")
    ELSE LET t == ParseU64(data[1])
             o == ParseF64(data[2])
             h == ParseF64(data[3])
             l == ParseF64(data[4])
             c == ParseF64(data[5])
             v == ParseF64(data[6])
             u == ParseF64(data[7])
         IN  IF ~t.ok THEN Err("Invalid start time")
             ELSE IF ~o.ok THEN Err("Invalid open price")
             ELSE IF ~h.ok THEN Err("Invalid high price")
             ELSE IF ~l.ok THEN Err("Invalid low price")
             ELSE IF ~c.ok THEN Err("Invalid close price")
             ELSE IF ~v.ok THEN Err("Invalid volume")
             ELSE IF ~u.ok THEN Err("Invalid turnover")
             ELSE Ok([start_time |-> t.val, open_price |-> o.val,
                      high_price |-> h.val, low_price |-> l.val,
                      close_price |-> c.val, volume |-> v.val,
                      turnover |-> u.val])

\* ------------------------------------- BybitClient::parse_interval_to_ms
\* Mutant: two digits of the week are swapped.
parse_interval_to_ms_week(interval) ==
    CASE interval = "1" -> Ok(<<"6", "0", "0", "0", "0">>)
      [] interval = "3" -> Ok(<<"1", "8", "0", "0", "0", "0">>)
      [] interval = "5" -> Ok(<<"3", "0", "0", "0", "0", "0">>)
      [] interval = "15" -> Ok(<<"9", "0", "0", "0", "0", "0">>)
      [] interval = "30" -> Ok(<<"1", "8", "0", "0", "0", "0", "0">>)
      [] interval = "60" -> Ok(<<"3", "6", "0", "0", "0", "0", "0">>)
      [] interval = "120" -> Ok(<<"7", "2", "0", "0", "0", "0", "0">>)
      [] interval = "240" -> Ok(<<"1", "4", "4", "0", "0", "0", "0", "0">>)
      [] interval = "360" -> Ok(<<"2", "1", "6", "0", "0", "0", "0", "0">>)
      [] interval = "720" -> Ok(<<"4", "3", "2", "0", "0", "0", "0", "0">>)
      [] interval = "D" -> Ok(<<"8", "6", "4", "0", "0", "0", "0", "0">>)
      [] interval = "W" -> Ok(<<"6", "4", "0", "8", "0", "0", "0", "0", "0">>)
      [] interval = "M" -> Ok(<<"2", "5", "9", "2", "0", "0", "0", "0", "0", "0">>)
      [] OTHER -> Err("Unsupported interval: " \o interval)

\* The u64 result is kept as the decimal numeral of the source's literal:
\* 2_592_000_000 is beyond the checker's integers.  Millis(n) is its value,
\* taken where get_kline computes with it.
parse_interval_to_ms(interval) ==
    CASE interval = "1" -> Ok(<<"6", "0", "0", "0", "0">>)
      [] interval = "3" -> Ok(<<"1", "8", "0", "0", "0", "0">>)
      [] interval = "5" -> Ok(<<"3", "0", "0", "0", "0", "0">>)
      [] interval = "15" -> Ok(<<"9", "0", "0", "0", "0", "0">>)
      [] interval = "30" -> Ok(<<"1", "8", "0", "0", "0", "0", "0">>)
      [] interval = "60" -> Ok(<<"3", "6", "0", "0", "0", "0", "0">>)
      [] interval = "120" -> Ok(<<"7", "2", "0", "0", "0", "0", "0">>)
      [] interval = "240" -> Ok(<<"1", "4", "4", "0", "0", "0", "0", "0">>)
      [] interval = "360" -> Ok(<<"2", "1", "6", "0", "0", "0", "0", "0">>)
      [] interval = "720" -> Ok(<<"4", "3", "2", "0", "0", "0", "0", "0">>)
      [] interval = "D" -> Ok(<<"8", "6", "4", "0", "0", "0", "0", "0">>)
      [] interval = "W" -> Ok(<<"6", "0", "4", "8", "0", "0", "0", "0", "0">>)
      [] interval = "M" -> Ok(<<"2", "5", "9", "2", "0", "0", "0", "0", "0", "0">>)
      [] OTHER -> Err("Unsupported interval: " \o interval)

Millis(n) == DecimalValue(n)

\* ------------------------------------------------ Kline::to_barter_event
\* Mutant: the inverse category gets a label of its own.
exchange_name_inverse(category) ==
    CASE category = "spot" -> "bybit_spot"
      [] category = "linear" -> "bybit_perpetuals_usd"
      [] category = "inverse" -> "bybit_perpetuals_inverse"
      [] OTHER -> "bybit_spot"

\* The match on category.
exchange_name(category) ==
    CASE category = "spot" -> "bybit_spot"
      [] category = "linear" -> "bybit_perpetuals_usd"
      [] category = "inverse" -> "bybit_perpetuals_usd"
      [] OTHER -> "bybit_spot"

\* A DateTime is kept as its milliseconds since the epoch: every timestamp
\* here is within chrono's range, so from_timestamp_millis is Some and the
\* epoch fallback is not taken.  `now` is the reading of Utc::now().
to_barter_event(self, instrument_index, interval_minutes, category, now) ==
    LET start_time == self.start_time
        close_time == start_time + interval_minutes * 60000
    IN  [time_exchange |-> start_time,
         time_received |-> now,
         exchange |-> exchange_name(category),
         instrument |-> instrument_index,
         candle |-> [close_time |-> close_time,
                     open |-> self.open_price,
                     high |-> self.high_price,
                     low |-> self.low_price,
                     close |-> self.close_price,
                     volume |-> self.volume,
                     trade_count |-> 0]]

\* main, "barter" output: args.interval.parse::<u32>().unwrap_or(15).  The
\* interval is the sequence of its characters; u32 and u64 parse alike for
\* the short codes used here.
interval_minutes(interval) ==
    LET parsed == ParseU64(interval)
    IN  IF parsed.ok THEN parsed.val ELSE 15

\* main, "barter" output: the event printed for one kline.
barter_event(kline, instrument_index, interval, category, now) ==
    to_barter_event(kline, instrument_index, interval_minutes(interval), category, now)

\* ------------------------------------ BybitClient::get_kline_single
\* A response is what `.send().await?.json().await?` yields: a transport or
\* decoding failure, or the decoded envelope.
RECURSIVE NormalizeRows(_, _)
NormalizeRows(list, klines) ==
    IF list = <<>> THEN Ok(klines)
    ELSE LET k == from_vec(Head(list))
         IN  IF k.ok THEN NormalizeRows(Tail(list), Append(klines, k.val))
             ELSE k

get_kline_single(response) ==
    IF ~response.sent THEN Err("HTTP request failed")
    ELSE IF response.ret_code # 0 THEN Err(response.ret_msg)
    ELSE IF response.result = None THEN Err("No result data")
    ELSE NormalizeRows(response.result.list, <<>>)

\* ------------------------------------------- Vec helpers of get_kline
\* sort_by_key(|k| k.start_time): stable insertion by start_time.
RECURSIVE InsertByKey(_, _)
InsertByKey(sorted, k) ==
    IF sorted = <<>> THEN <<k>>
    ELSE IF sorted[Len(sorted)].start_time <= k.start_time THEN Append(sorted, k)
    ELSE Append(InsertByKey(SubSeq(sorted, 1, Len(sorted) - 1), k), sorted[Len(sorted)])

RECURSIVE SortByKeyFrom(_, _)
SortByKeyFrom(sorted, rest) ==
    IF rest = <<>> THEN sorted
    ELSE SortByKeyFrom(InsertByKey(sorted, Head(rest)), Tail(rest))

\* Mutant: the rows are left in the provider's order.
sort_by_key_none(v) == v

sort_by_key(v) == SortByKeyFrom(<<>>, v)

\* Mutant: the record at last_time itself is kept.
Retain_inclusive(chunk, all) ==
    IF all # <<>>
    THEN LET last_time == all[Len(all)].start_time
         IN  SelectSeq(chunk, LAMBDA k : k.start_time >= last_time)
    ELSE chunk

\* retain(|k| k.start_time > last_time), guarded by !all_klines.is_empty()
Retain(chunk, all) ==
    IF all # <<>>
    THEN LET last_time == all[Len(all)].start_time
         IN  SelectSeq(chunk, LAMBDA k : k.start_time > last_time)
    ELSE chunk

\* Mutant: the truncation keeps one record too few.
Truncate_short(chunk, space_left) ==
    IF Len(chunk) >= space_left THEN SubSeq(chunk, 1, space_left - 1) ELSE chunk

\* Mutant: the chunk is never truncated.
Truncate_none(chunk, space_left) == chunk

\* truncate(space_left) when chunk_klines.len() > space_left
Truncate(chunk, space_left) ==
    IF Len(chunk) > space_left THEN SubSeq(chunk, 1, space_left) ELSE chunk

\* dedup_by_key(|k| k.start_time): drops an element equal in key to the one
\* kept before it.
RECURSIVE DedupFrom(_, _)
DedupFrom(kept, rest) ==
    IF rest = <<>> THEN kept
    ELSE IF kept # <<>> /\ kept[Len(kept)].start_time = Head(rest).start_time
         THEN DedupFrom(kept, Tail(rest))
         ELSE DedupFrom(Append(kept, Head(rest)), Tail(rest))

\* Mutant: the deduplication is left out.
dedup_by_key_none(v) == v

dedup_by_key(v) == DedupFrom(<<>>, v)

\* Final sort and deduplication
FinalPass(all) == dedup_by_key(sort_by_key(all))


\* ---------------------------------------------------------------- state
VARIABLES
    start, end, interval, max_records,  \* the request (Args, main)
    pc,              \* where the run is
    all_klines,      \* get_kline: the accumulator
    current_start,   \* get_kline: lower bound of the next window
    interval_ms,     \* get_kline: resolved interval duration
    inflight,        \* the latest page request issued, or None
    response,        \* the response it resolved with, or None while in flight
    fetched,         \* what get_kline_single(..).await yielded for it, or None
    result,          \* what get_kline / main returned, or None
    exit,            \* which exit of get_kline was taken
    fetcher,         \* kind of provider: "any", "dataset" or "function"
    data,            \* "dataset": start times of the bars the provider holds
    allFull,         \* every response so far carried exactly `limit` rows
    log,             \* "function": requests and responses of this run
    prev,            \* "function": log and result of the previous run
    call,            \* a function applied on its own: its name and arguments
    ret              \* what that application returned, or None before it

vars == <<start, end, interval, max_records, pc, all_klines, current_start,
          interval_ms, inflight, response, fetched, result, exit, fetcher, data,
          allFull, log, prev, call, ret>>

\* ------------------------------------------------------------- provider
Times == {k * 60000 : k \in 0..MaxTick}

Intervals == {"1", "3", "7"}

Price == <<"1", ".", "5">>

GoodRow(t) == <<to_string(t), Price, Price, Price, Price, Price, Price>>

ShortRow == <<<<"1", "0", "0">>>>

BadRow == <<to_string(0), Price, <<"x">>, Price, Price, Price, Price>>

Rows == {GoodRow(t) : t \in Times} \cup {ShortRow, BadRow}

Pages == UNION {[1..n -> Rows] : n \in 0..MaxRows}

TransportFailure == [sent |-> FALSE, ret_code |-> 0, ret_msg |-> "", result |-> None]

Rejected == [sent |-> TRUE, ret_code |-> 10001, ret_msg |-> "params error", result |-> None]

NoResult == [sent |-> TRUE, ret_code |-> 0, ret_msg |-> "OK", result |-> None]

OkResponse(list) == [sent |-> TRUE, ret_code |-> 0, ret_msg |-> "OK", result |-> [list |-> list]]

Responses == {TransportFailure, Rejected, NoResult} \cup {OkResponse(p) : p \in Pages}

\* All orders in which the bars of S can be listed.
Orders(S) == {f \in [1..Cardinality(S) -> S] : \A i, j \in 1..Cardinality(S) : f[i] = f[j] => i = j}

\* "dataset": exactly the held bars whose start time is in [req.start, req.end).
DatasetResponses(req) ==
    LET bars == {t \in data : req.start <= t /\ t < req.end}
    IN  {OkResponse([i \in 1..Cardinality(bars) |-> GoodRow(o[i])]) : o \in Orders(bars)}

\* What a provider that is a fixed function answers to a new request.
FnRows == {GoodRow(t) : t \in {u \in Times : u <= MaxFnTick * 60000}} \cup {ShortRow}

FnResponses ==
    {TransportFailure} \cup {OkResponse(p) : p \in UNION {[1..n -> FnRows] : n \in 0..MaxRows}}

\* "function": the response to a request seen before, in this run or the
\* previous one, is the response given then.
Seen == (IF prev = None THEN {} ELSE {prev.log[i] : i \in 1..Len(prev.log)})
        \cup {log[i] : i \in 1..Len(log)}

FunctionResponses(req) ==
    IF \E e \in Seen : e.req = req
    THEN {e.resp : e \in {x \in Seen : x.req = req}}
    ELSE FnResponses

IsFull(resp, req) ==
    /\ resp.sent /\ resp.ret_code = 0 /\ resp.result # None
    /\ Len(resp.result.list) = req.limit

\* ----------------------------------------------------------------- main
\* main: start_timestamp >= end_timestamp is rejected before the client runs.
main_validate ==
    /\ pc = "main"
    /\ IF start >= end
       THEN /\ pc' = "error"
            /\ result' = Err("Start date must be before end date")
       ELSE /\ pc' = "get_kline"
            /\ result' = result
    /\ UNCHANGED <<start, end, interval, max_records, all_klines, current_start,
                   interval_ms, inflight, response, fetched, exit, fetcher, data,
                   allFull, log, prev, call, ret>>

\* ------------------------------------------------- BybitClient::get_kline
chunk_limit == MaxPage

\* Mutant: an unknown interval code falls back to one minute.
Begin_default ==
    /\ pc = "get_kline"
    /\ all_klines' = <<>>
    /\ current_start' = start
    /\ interval_ms' = IF parse_interval_to_ms(interval).ok
                      THEN Millis(parse_interval_to_ms(interval).val)
                      ELSE 60000
    /\ pc' = "loop"
    /\ UNCHANGED <<start, end, interval, max_records, inflight, response, fetched,
                   result, exit, fetcher, data, allFull, log, prev,
                   call, ret>>

\* Mutant: the accumulator outlives the call.
Begin_stale ==
    /\ pc = "get_kline"
    /\ all_klines' = all_klines
    /\ current_start' = start
    /\ LET ms == parse_interval_to_ms(interval)
       IN  IF ms.ok
           THEN /\ interval_ms' = Millis(ms.val)
                /\ pc' = "loop"
                /\ UNCHANGED <<result, exit>>
           ELSE /\ interval_ms' = interval_ms
                /\ pc' = "error"
                /\ result' = Err(ms.err)
                /\ exit' = "error"
    /\ UNCHANGED <<start, end, interval, max_records, inflight, response, fetched,
                   fetcher, data, allFull, log, prev,
                   call, ret>>

\* get_kline entry: the locals, then parse_interval_to_ms(interval)?
Begin ==
    /\ pc = "get_kline"
    /\ all_klines' = <<>>
    /\ current_start' = start
    /\ LET ms == parse_interval_to_ms(interval)
       IN  IF ms.ok
           THEN /\ interval_ms' = Millis(ms.val)
                /\ pc' = "loop"
                /\ UNCHANGED <<result, exit>>
           ELSE /\ interval_ms' = interval_ms
                /\ pc' = "error"
                /\ result' = Err(ms.err)
                /\ exit' = "error"
    /\ UNCHANGED <<start, end, interval, max_records, inflight, response, fetched,
                   fetcher, data, allFull, log, prev,
                   call, ret>>

LoopCondition == current_start < end /\ Len(all_klines) < max_records

current_chunk_limit(all, max) == Min(chunk_limit, max - Len(all))

\* Mutant: the chunk's window is not cut at the end of the run's window.
chunk_end_of_uncut(cs, limit, ms, e) == cs + limit * ms

chunk_end_of(cs, limit, ms, e) == Min(cs + limit * ms, e)

\* while condition true: the window of this chunk, then get_kline_single(..).await
IssueRequest ==
    /\ pc = "loop"
    /\ LoopCondition
    /\ fetcher = "function" => Len(log) < MaxRequests
    /\ LET limit == current_chunk_limit(all_klines, max_records)
       IN  inflight' = [start |-> current_start,
                        end |-> chunk_end_of(current_start, limit, interval_ms, end),
                        limit |-> limit]
    /\ response' = None
    /\ fetched' = None
    /\ pc' = "fetching"
    /\ UNCHANGED <<start, end, interval, max_records, all_klines, current_start,
                   interval_ms, result, exit, fetcher, data, allFull, log, prev,
                   call, ret>>

\* Leaving the loop: final sort and deduplication, Ok(all_klines).  The
\* variable all_klines keeps the accumulator as the loop left it; result
\* carries the vector after the final pass, which is what the caller gets.
Return(all, reason) ==
    /\ all_klines' = all
    /\ result' = Ok(FinalPass(all))
    /\ exit' = reason
    /\ pc' = "done"

\* while condition false
LoopExit ==
    /\ pc = "loop"
    /\ ~LoopCondition
    /\ Return(all_klines, IF current_start >= end THEN "exhausted" ELSE "cap")
    /\ UNCHANGED <<start, end, interval, max_records, current_start,
                   interval_ms, inflight, response, fetched, fetcher, data, allFull,
                   log, prev,
                   call, ret>>

\* The provider resolves the request in flight and get_kline_single turns
\* the response into Ok(klines) or Err.
Respond ==
    /\ pc = "fetching"
    /\ response' \in CASE fetcher = "dataset" -> DatasetResponses(inflight)
                       [] fetcher = "function" -> FunctionResponses(inflight)
                       [] OTHER -> Responses
    /\ fetched' = get_kline_single(response')
    /\ allFull' = (allFull /\ IsFull(response', inflight))
    /\ log' = IF fetcher = "function"
              THEN Append(log, [req |-> inflight, resp |-> response'])
              ELSE log
    /\ pc' = "responded"
    /\ UNCHANGED <<start, end, interval, max_records, all_klines, current_start,
                   interval_ms, inflight, result, exit, fetcher, data, prev,
                   call, ret>>

\* Mutant: an error makes the run return what it has accumulated.
FetchFails_partial ==
    /\ pc = "responded"
    /\ ~fetched.ok
    /\ result' = Ok(FinalPass(all_klines))
    /\ exit' = "error"
    /\ pc' = "done"
    /\ UNCHANGED <<start, end, interval, max_records, all_klines, current_start,
                   interval_ms, inflight, response, fetched, fetcher, data, allFull,
                   log, prev,
                   call, ret>>

\* get_kline_single(..).await? returned Err: get_kline returns it.
FetchFails ==
    /\ pc = "responded"
    /\ ~fetched.ok
    /\ result' = Err(fetched.err)
    /\ exit' = "error"
    /\ pc' = "error"
    /\ UNCHANGED <<start, end, interval, max_records, all_klines, current_start,
                   interval_ms, inflight, response, fetched, fetcher, data, allFull,
                   log, prev,
                   call, ret>>

\* Mutant: an empty page is skipped and the loop goes on after the sleep.
PageEmpty_continue ==
    /\ pc = "responded"
    /\ fetched.ok
    /\ fetched.val = <<>>
    /\ pc' = "sleeping"
    /\ UNCHANGED <<start, end, interval, max_records, all_klines, current_start,
                   interval_ms, inflight, response, fetched, result, exit,
                   fetcher, data, allFull, log, prev,
                   call, ret>>

\* chunk_klines.is_empty(): break
PageEmpty ==
    /\ pc = "responded"
    /\ fetched.ok
    /\ fetched.val = <<>>
    /\ Return(all_klines, "empty")
    /\ UNCHANGED <<start, end, interval, max_records, current_start,
                   interval_ms, inflight, response, fetched, fetcher, data, allFull,
                   log, prev,
                   call, ret>>

\* What one non-empty page adds to the accumulator: sort, forward dedup,
\* truncate to the space left.
Appended(chunk_klines, all, max) ==
    Truncate(Retain(sort_by_key(chunk_klines), all), max - Len(all))

\* Mutant: the window advances by two intervals.
next_start_skip(all, ms) == all[Len(all)].start_time + 2 * ms

\* Move to next chunk: the last kline's time + interval
next_start(all, ms) == all[Len(all)].start_time + ms

\* Mutant: the next iteration starts without the sleep.
PageArrives_nosleep ==
    /\ pc = "responded"
    /\ fetched.ok
    /\ fetched.val # <<>>
    /\ LET extended == all_klines \o Appended(fetched.val, all_klines, max_records)
       IN  IF Len(extended) >= max_records
           THEN /\ Return(extended, "cap")
                /\ UNCHANGED current_start
           ELSE IF extended # <<>>
           THEN /\ all_klines' = extended
                /\ current_start' = next_start(extended, interval_ms)
                /\ pc' = "loop"
                /\ UNCHANGED <<result, exit>>
           ELSE /\ Return(extended, "noprogress")
                /\ UNCHANGED current_start
    /\ UNCHANGED <<start, end, interval, max_records, interval_ms, inflight,
                   response, fetched, fetcher, data, allFull, log, prev,
                   call, ret>>

\* A non-empty page: extend, then cap check, then advance and sleep.
PageArrives ==
    /\ pc = "responded"
    /\ fetched.ok
    /\ fetched.val # <<>>
    /\ LET extended == all_klines \o Appended(fetched.val, all_klines, max_records)
       IN  IF Len(extended) >= max_records
           THEN /\ Return(extended, "cap")
                /\ UNCHANGED current_start
           ELSE IF extended # <<>>
           THEN /\ all_klines' = extended
                /\ current_start' = next_start(extended, interval_ms)
                /\ pc' = "sleeping"
                /\ UNCHANGED <<result, exit>>
           ELSE /\ Return(extended, "noprogress")
                /\ UNCHANGED current_start
    /\ UNCHANGED <<start, end, interval, max_records, interval_ms, inflight,
                   response, fetched, fetcher, data, allFull, log, prev,
                   call, ret>>

\* tokio::time::sleep(100 ms).await is over: back to the while condition.
Wake ==
    /\ pc = "sleeping"
    /\ pc' = "loop"
    /\ UNCHANGED <<start, end, interval, max_records, all_klines, current_start,
                   interval_ms, inflight, response, fetched, result, exit, fetcher, data,
                   allFull, log, prev, call, ret>>

\* The binary is run again with the same arguments against the same provider.
Rerun ==
    /\ fetcher = "function"
    /\ prev = None
    /\ pc \in {"done", "error"}
    /\ prev' = [log |-> log, result |-> result, exit |-> exit]
    /\ log' = <<>>
    /\ result' = None
    /\ exit' = ""
    /\ inflight' = None
    /\ response' = None
    /\ fetched' = None
    /\ pc' = "main"
    /\ UNCHANGED <<start, end, interval, max_records, all_klines, current_start,
                   interval_ms, fetcher, data, allFull, call, ret>>

\* -------------------------------------------------------- specifications
Spaced(S, ms) == \A a, b \in S : (a - b) % ms = 0

InitRun ==
    /\ start \in Times
    /\ end \in Times
    /\ interval \in Intervals
    /\ max_records \in 0..MaxRecords
    /\ pc = "main"
    /\ all_klines = <<>>
    /\ current_start = 0
    /\ interval_ms = 0
    /\ inflight = None
    /\ response = None
    /\ fetched = None
    /\ result = None
    /\ exit = ""
    /\ allFull = TRUE
    /\ log = <<>>
    /\ prev = None
    /\ call = None
    /\ ret = None

Init ==
    /\ InitRun
    /\ fetcher \in {"any", "dataset"}
    /\ IF fetcher = "dataset"
       THEN /\ parse_interval_to_ms(interval).ok
            /\ data \in {S \in SUBSET Times : Spaced(S, Millis(parse_interval_to_ms(interval).val))}
       ELSE data = {}

Next ==
    \/ main_validate
    \/ Begin
    \/ IssueRequest
    \/ LoopExit
    \/ Respond
    \/ FetchFails
    \/ PageEmpty
    \/ PageArrives
    \/ Wake

Spec == Init /\ [][Next]_vars

\* Every request resolves (Respond) and the run, a single task, takes each
\* step it is ready to take.
Fairness ==
    /\ WF_vars(main_validate)
    /\ WF_vars(Begin)
    /\ WF_vars(IssueRequest)
    /\ WF_vars(LoopExit)
    /\ WF_vars(Respond)
    /\ WF_vars(FetchFails)
    /\ WF_vars(PageEmpty)
    /\ WF_vars(PageArrives)
    /\ WF_vars(Wake)

FairSpec == Spec /\ Fairness

InitDet ==
    /\ InitRun
    /\ fetcher = "function"
    /\ data = {}

NextDet == Next \/ Rerun

SpecDet == InitDet /\ [][NextDet]_vars

\* ------------------------------------------- functions applied on their own
\* An interval code drawn from an alphabet is the sequence of its
\* characters; Join makes the string the match arms compare.
RECURSIVE Join(_)
Join(chars) == IF chars = <<>> THEN "" ELSE chars[1] \o Join(Tail(chars))

CodeChars == {"0", "1", "2", "3", "4", "5", "6", "7", "D", "W", "M"}

Codes == UNION {[1..n -> CodeChars] : n \in 0..MaxCodeLen}

\* Fields of a raw row: an integer, a decimal (no u64) and a non-number.
Fields == {<<"1">>, <<"1", ".", "5">>, <<"x">>}

RawRows == UNION {[1..n -> Fields] : n \in 0..MaxFields}

Categories == {"spot", "linear", "inverse", "option", "SPOT", ""}

\* main prints events only for what get_kline returned, so the interval
\* of a projection is one that parse_interval_to_ms accepted.
Projections ==
    [fn : {"to_barter_event"},
     kline : {from_vec(GoodRow(t)).val : t \in {0, 60000}},
     instrument_index : {0, 1},
     interval : {c \in Codes : parse_interval_to_ms(Join(c)).ok},
     category : Categories,
     now : {60000 * MaxTick + 1}]

Calls ==
    [fn : {"parse_interval_to_ms"}, interval : Codes]
        \cup [fn : {"from_vec"}, data : RawRows]
        \cup Projections

InitUnit ==
    /\ call \in Calls
    /\ ret = None
    /\ pc = "unit"
    /\ start = 0
    /\ end = 0
    /\ interval = ""
    /\ max_records = 0
    /\ all_klines = <<>>
    /\ current_start = 0
    /\ interval_ms = 0
    /\ inflight = None
    /\ response = None
    /\ fetched = None
    /\ result = None
    /\ exit = ""
    /\ fetcher = "any"
    /\ data = {}
    /\ allFull = TRUE
    /\ log = <<>>
    /\ prev = None

Idle ==
    UNCHANGED <<start, end, interval, max_records, pc, all_klines, current_start,
                interval_ms, inflight, response, fetched, result, exit, fetcher,
                data, allFull, log, prev, call>>

ApplyParseInterval ==
    /\ pc = "unit"
    /\ call.fn = "parse_interval_to_ms"
    /\ ret = None
    /\ ret' = parse_interval_to_ms(Join(call.interval))
    /\ Idle

ApplyFromVec ==
    /\ pc = "unit"
    /\ call.fn = "from_vec"
    /\ ret = None
    /\ ret' = from_vec(call.data)
    /\ Idle

ApplyBarterEvent ==
    /\ pc = "unit"
    /\ call.fn = "to_barter_event"
    /\ ret = None
    /\ ret' = barter_event(call.kline, call.instrument_index, call.interval,
                           call.category, call.now)
    /\ Idle

NextUnit ==
    \/ ApplyParseInterval
    \/ ApplyFromVec
    \/ ApplyBarterEvent

SpecUnit == InitUnit /\ [][NextUnit]_vars

\* ----------------------------------------------------------- properties
StartTimes(v) == {v[i].start_time : i \in 1..Len(v)}

StrictlyIncreasing(v) ==
    \A i \in 1..(Len(v) - 1) : v[i].start_time < v[i + 1].start_time

Returned == pc = "done" /\ result.ok

\* C1: whatever pages the provider sent (any order, repeated timestamps), the
\* series a successful run returns is strictly increasing in start_time.
C1_StrictlyIncreasing == Returned => StrictlyIncreasing(result.val)

\* A run returned two or more records after the final pass removed a
\* repeated timestamp from the accumulator.
C1_Witness ==
    /\ Returned
    /\ Len(result.val) >= 2
    /\ Len(all_klines) > Len(result.val)

\* C2: the accumulator never holds more than max_records records, and a
\* successful run returns at most max_records records.
C2_AtMostMaxRecords ==
    /\ Len(all_klines) <= max_records
    /\ Returned => Len(result.val) <= max_records

\* The cap was reached by a page that carried more rows than were asked for.
C2_Witness ==
    /\ Returned
    /\ exit = "cap"
    /\ Len(result.val) = max_records
    /\ response # None
    /\ Len(response.result.list) > inflight.limit

\* C3: every record of the returned series has start <= start_time < end,
\* whatever pages the provider sent.
C3_WithinWindow ==
    Returned => \A t \in StartTimes(result.val) : start <= t /\ t < end

\* C4: every run terminates when every request resolves.
C4_Terminates == <>(pc \in {"done", "error"})

\* A response that get_kline_single must turn into an error.
Faulty(resp) ==
    \/ ~resp.sent
    \/ resp.ret_code # 0
    \/ resp.result = None
    \/ \E i \in 1..Len(resp.result.list) : Len(resp.result.list[i]) < 7

\* C5: a faulty response (transport failure, non-zero return code, missing
\* result, a row with fewer than 7 fields) ends the run at once with the
\* error alone: no record is returned, and nothing happens afterwards.
C5_ErrorAborts ==
    [][/\ (pc = "responded" /\ Faulty(response))
            => (pc' = "error" /\ ~result'.ok /\ result'.val = <<>>)
       /\ pc = "error" => (pc' = "error" /\ result' = result)]_vars

\* A run that had accumulated records ended with an error caused by a row
\* with fewer than 7 fields.
C5_Witness ==
    /\ pc = "error"
    /\ exit = "error"
    /\ all_klines # <<>>
    /\ response # None
    /\ response.result # None
    /\ \E i \in 1..Len(response.result.list) : Len(response.result.list[i]) < 7
    /\ ~result.ok

\* C6 as stated: against a provider that answers every request with as many
\* bars as the limit asks for, a run returns exactly max_records records.
C6_ExactlyN ==
    (Returned /\ fetcher = "dataset" /\ allFull) => Len(result.val) = max_records

\* C6, amended: the same when the window is long enough for max_records
\* bars (start + max_records * interval_ms <= end); the series is strictly
\* increasing, and no request is in flight or being handled once the
\* accumulator holds max_records records.
C6_CapEnforced ==
    /\ (Returned /\ fetcher = "dataset" /\ allFull
            /\ start + max_records * interval_ms <= end)
         => (Len(result.val) = max_records /\ StrictlyIncreasing(result.val))
    /\ pc = "fetching" => Len(all_klines) < max_records

\* A run of more than one page against such a provider reached the cap.
C6_Witness ==
    /\ Returned
    /\ fetcher = "dataset"
    /\ allFull
    /\ start + max_records * interval_ms <= end
    /\ max_records > chunk_limit
    /\ Len(result.val) = max_records
    /\ exit = "cap"

\* C7: against a provider that answers each request with exactly its bars
\* in the requested window, the returned series has every bar of the data
\* set that lies between its first and its last record.
C7_GapFree ==
    (Returned /\ fetcher = "dataset" /\ result.val # <<>>)
        => \A t \in data :
               (result.val[1].start_time <= t /\ t <= result.val[Len(result.val)].start_time)
                   => t \in StartTimes(result.val)

\* A run of more than one page returned three or more bars of the data set.
C7_Witness ==
    /\ Returned
    /\ fetcher = "dataset"
    /\ Len(result.val) >= 3
    /\ inflight.start > start
    /\ StartTimes(result.val) \subseteq data

\* C8: a record whose start_time is not greater than that of the last
\* accumulated record is never appended: whatever a page adds to a non-empty
\* accumulator is later than its last record, and the accumulator only grows
\* at its end.
C8_ForwardDedup ==
    [][all_klines # <<>> /\ pc = "responded"
          => /\ Len(all_klines') >= Len(all_klines)
             /\ SubSeq(all_klines', 1, Len(all_klines)) = all_klines
             /\ \A i \in (Len(all_klines) + 1)..Len(all_klines') :
                    all_klines'[i].start_time > all_klines[Len(all_klines)].start_time]_vars

\* The page requested after T was accumulated carried T again and a later
\* bar: the accumulator is T followed by the later bar, T once.
C8_Witness ==
    /\ pc = "sleeping"
    /\ Len(all_klines) = 2
    /\ inflight.start = all_klines[1].start_time + interval_ms
    /\ Len(fetched.val) = 2
    /\ StartTimes(fetched.val) = StartTimes(all_klines)
    /\ all_klines[1].start_time < all_klines[2].start_time

\* A successful response with no rows.
EmptyPage(resp) ==
    resp.sent /\ resp.ret_code = 0 /\ resp.result # None /\ resp.result.list = <<>>

\* C9 as stated: after an empty page the run returns exactly the records
\* accumulated before it.
C9_ReturnsAccumulated ==
    (Returned /\ exit = "empty") => result.val = all_klines

\* C9, amended: an empty page ends the run normally and at once, and the
\* series returned is the accumulated records with one record kept per
\* start_time, in increasing order; nothing happens afterwards.
C9_EmptyPageEnds ==
    [][/\ (pc = "responded" /\ EmptyPage(response))
            => /\ pc' = "done"
               /\ result'.ok
               /\ all_klines' = all_klines
               /\ StartTimes(result'.val) = StartTimes(all_klines)
               /\ \A i \in 1..Len(result'.val) :
                      \E j \in 1..Len(all_klines) : result'.val[i] = all_klines[j]
               /\ StrictlyIncreasing(result'.val)
       /\ pc = "done" => (pc' = "done" /\ result' = result)]_vars

\* An empty page ended a run whose accumulator held a repeated start_time.
C9_Witness ==
    /\ Returned
    /\ exit = "empty"
    /\ Len(all_klines) >= 2
    /\ Len(result.val) < Len(all_klines)

Requests(l) == [i \in 1..Len(l) |-> l[i].req]

\* C10: run again with the same request against a provider that is a fixed
\* function of the request, the engine issues the same page requests and
\* returns the same result.
C10_Deterministic ==
    (prev # None /\ pc \in {"done", "error"})
        => (result = prev.result /\ Requests(log) = Requests(prev.log))

\* The second of two runs returned two or more records after two requests.
C10_Witness ==
    /\ prev # None
    /\ Returned
    /\ Len(log) = 2
    /\ Len(result.val) >= 2

Applied(fn) == call # None /\ call.fn = fn /\ ret # None

\* C11: the event projected from a record under a supported interval code
\* has close_time = start_time + the duration parse_interval_to_ms gives
\* for that code, and exchange time = start_time.
C11_CloseTime ==
    Applied("to_barter_event")
        => /\ to_string(ret.candle.close_time - call.kline.start_time)
                  = parse_interval_to_ms(Join(call.interval)).val
           /\ ret.time_exchange = call.kline.start_time

\* The interval codes of the table in parse_interval_to_ms.
SupportedCodes ==
    {"1", "3", "5", "15", "30", "60", "120", "240", "360", "720", "D", "W", "M"}

\* C12: an invocation whose window has start >= end, or whose interval code
\* is not in the table, never issues a page request; when it has ended, it
\* has ended in the error that names the cause.
C12_RejectedBeforeFetch ==
    (start >= end \/ interval \notin SupportedCodes)
        => /\ inflight = None
           /\ pc \in {"main", "get_kline", "error"}
           /\ pc = "error"
                => /\ ~result.ok
                   /\ result.err = IF start >= end
                                   THEN "Start date must be before end date"
                                   ELSE "Unsupported interval: " \o interval

\* A run with a proper window and the interval code "7" ended in the error,
\* no request issued.
C12_Witness ==
    /\ pc = "error"
    /\ start < end
    /\ interval = "7"
    /\ inflight = None
    /\ result.err = "Unsupported interval: 7"

\* C14: the request in flight asks for limit = min(chunk_limit, max_records
\* - len(accumulator)), 1 <= limit <= chunk_limit, over the window
\* [current_start, min(current_start + limit * interval_ms, end)), and
\* current_start < chunk_end <= end.
C14_RequestShape ==
    pc = "fetching"
        => LET room == max_records - Len(all_klines)
               limit == inflight.limit
               reach == current_start + limit * interval_ms
           IN  /\ limit = (IF chunk_limit <= room THEN chunk_limit ELSE room)
               /\ 1 <= limit
               /\ limit <= chunk_limit
               /\ inflight.start = current_start
               /\ inflight.end = (IF reach <= end THEN reach ELSE end)
               /\ inflight.start < inflight.end
               /\ inflight.end <= end

\* A request limited by the page cap, whose window ends before the end of
\* the run's window.
C14_Witness ==
    /\ pc = "fetching"
    /\ inflight.limit = chunk_limit
    /\ max_records - Len(all_klines) > chunk_limit
    /\ inflight.end < end

\* C15: an iteration that receives a non-empty page and appends nothing ends
\* the loop.
C15_NoProgressEnds ==
    [][(pc = "responded" /\ fetched.ok /\ fetched.val # <<>>
            /\ all_klines' = all_klines)
          => pc' = "done"]_vars

\* C16: a request is issued only from the loop head, which is entered only
\* at the start of get_kline or when the sleep is over; the sleep starts only
\* when a page has been handled; a request in flight is followed by nothing
\* but its response.  So one request at most is in flight, and the sleep lies
\* between any two requests.
C16_OneAtATime ==
    [][/\ pc' = "fetching" => pc \in {"loop", "fetching"}
       /\ pc' = "loop" => pc \in {"get_kline", "sleeping", "loop"}
       /\ pc' = "sleeping" => pc \in {"responded", "sleeping"}
       /\ pc = "fetching" => (pc' \in {"fetching", "responded"} /\ inflight' = inflight)
       /\ pc' = "responded" => pc \in {"fetching", "responded"}]_vars

\* A second request is in flight: a page was handled and slept on before it.
C16_Witness ==
    /\ pc = "fetching"
    /\ all_klines # <<>>
    /\ inflight.start = all_klines[Len(all_klines)].start_time + interval_ms

\* C19: from one page request to the next the window lower bound strictly
\* increases, and it is never below the run's start.
C19_WindowAdvances ==
    [][(pc = "loop" /\ pc' = "fetching")
          => /\ inflight'.start >= start
             /\ inflight # None => inflight'.start > inflight.start]_vars

NonDecreasing(v) ==
    \A i \in 1..(Len(v) - 1) : v[i].start_time <= v[i + 1].start_time

\* C20 as stated: the series returned is the accumulator as the loop left it.
C20_FinalPassNoOp == Returned => result.val = all_klines

\* C20, amended: the accumulator is sorted (non-decreasing) in every state,
\* so the final sort changes no order; the final deduplication keeps the
\* first record of each start_time, so the series returned has one record
\* per distinct accumulated start_time, and it is the accumulator itself
\* when no start_time is repeated in it.
C20_FinalPassDedupOnly ==
    /\ NonDecreasing(all_klines)
    /\ Returned
        => /\ Len(result.val) = Cardinality(StartTimes(all_klines))
           /\ \A i \in 1..Len(result.val) :
                  \E j \in 1..Len(all_klines) :
                      /\ result.val[i] = all_klines[j]
                      /\ \A k \in 1..(j - 1) :
                             all_klines[k].start_time # all_klines[j].start_time
           /\ StrictlyIncreasing(all_klines) => result.val = all_klines

\* A run of two pages in which the provider listed the bars out of order
\* and repeated one: the accumulator is sorted and one record was dropped.
C20_Witness ==
    /\ Returned
    /\ Len(all_klines) >= 3
    /\ Len(result.val) = Len(all_klines) - 1
    /\ response # None
    /\ response.result # None
    /\ Len(response.result.list) = 2
    /\ response.result.list[1][1] # response.result.list[2][1]
    /\ from_vec(response.result.list[1]).val.start_time
           > from_vec(response.result.list[2]).val.start_time

\* C13: parse_interval_to_ms returns the table's duration for each of the
\* 13 supported codes, a strictly positive number, and for every other
\* code the error "Unsupported interval: <code>".
TableDuration(code) ==
    CASE code = "1" -> to_string(60000)
      [] code = "3" -> to_string(180000)
      [] code = "5" -> to_string(300000)
      [] code = "15" -> to_string(900000)
      [] code = "30" -> to_string(1800000)
      [] code = "60" -> to_string(3600000)
      [] code = "120" -> to_string(7200000)
      [] code = "240" -> to_string(14400000)
      [] code = "360" -> to_string(21600000)
      [] code = "720" -> to_string(43200000)
      [] code = "D" -> to_string(86400000)
      [] code = "W" -> to_string(604800000)
      [] code = "M" -> to_string(2592000) \o <<"0", "0", "0">>

PositiveNumeral(n) ==
    n # <<>> /\ AllDigits(n) /\ \E i \in 1..Len(n) : n[i] # "0"

C13_ResolverTable ==
    Applied("parse_interval_to_ms")
        => LET code == Join(call.interval)
           IN  IF code \in SupportedCodes
               THEN /\ ret.ok
                    /\ ret.val = TableDuration(code)
                    /\ PositiveNumeral(ret.val)
               ELSE /\ ~ret.ok
                    /\ ret.err = "Unsupported interval: " \o code

\* The month code was resolved to 2592000000.
C13_Witness ==
    /\ Applied("parse_interval_to_ms")
    /\ call.interval = <<"M">>
    /\ ret.ok
    /\ ret.val = <<"2", "5", "9", "2", "0", "0", "0", "0", "0", "0">>

\* C17: from_vec fails with the arity error on a row of fewer than 7
\* fields; on a longer row it fails naming the first of the seven fields
\* that does not parse, succeeds exactly when all seven parse, and is not
\* affected by fields beyond the seventh.
FieldNames ==
    <<"start time", "open price", "high price", "low price", "close price",
      "volume", "turnover">>

FieldParses(row, i) ==
    IF i = 1 THEN ParseU64(row[1]).ok ELSE ParseF64(row[i]).ok

C17_FirstFailingField ==
    Applied("from_vec")
        => LET row == call.data
               bad == {i \in 1..7 : i <= Len(row) /\ ~FieldParses(row, i)}
           IN  /\ Len(row) < 7
                    => ~ret.ok /\ ret.err = "Invalid kline data format"
               /\ (Len(row) >= 7 /\ bad # {})
                    => /\ ~ret.ok
                       /\ \E i \in bad :
                              /\ \A j \in bad : i <= j
                              /\ ret.err = "Invalid " \o FieldNames[i]
               /\ (Len(row) >= 7 /\ bad = {})
                    => /\ ret.ok
                       /\ ret.val.start_time = ParseU64(row[1]).val
                       /\ ret.val.turnover = ParseF64(row[7]).val
               /\ Len(row) > 7 => ret = from_vec(SubSeq(row, 1, 7))

\* A row of eight fields whose third, fifth and eighth fields are not
\* numbers failed on the high price.
C17_Witness ==
    /\ Applied("from_vec")
    /\ Len(call.data) = 8
    /\ call.data[1] = <<"1">>
    /\ call.data[2] = <<"1", ".", "5">>
    /\ call.data[3] = <<"x">>
    /\ call.data[5] = <<"x">>
    /\ call.data[8] = <<"x">>
    /\ ret.err = "Invalid high price"

\* C18: the venue label of a projected event is bybit_perpetuals_usd for
\* the categories linear and inverse and bybit_spot for every other
\* category, whatever the record, the interval and the instrument.
C18_VenueMapping ==
    Applied("to_barter_event")
        => ret.exchange = IF call.category \in {"linear", "inverse"}
                          THEN "bybit_perpetuals_usd"
                          ELSE "bybit_spot"

\* An event of the inverse category was labelled like a linear one.
C18_Witness ==
    /\ Applied("to_barter_event")
    /\ call.category = "inverse"
    /\ ret.exchange = "bybit_perpetuals_usd"
====
